---- MODULE Spec2Model ----
(***************************************************************************)
(* Model of the DetectionEngineering Python tools:                         *)
(*   Python/mitre.py                  MITRE ATT&CK technique catalog        *)
(*   Python/validation/validation.py  alert TOML required-field validator   *)
(*                                                                         *)
(* Python dicts are functions whose DOMAIN is the set of keys present.     *)
(* Strings on which the code computes (external_id.startswith) are         *)
(* sequences of one-character strings; strings that are only compared or   *)
(* copied (names, urls, field names, rule types) are TLA+ strings.         *)
(***************************************************************************)
EXTENDS Integers, Sequences, FiniteSets

VARIABLES
  \* ---- mitre.py: main() ----
  mitre_data,      \* the parsed JSON document returned by fetch_mitre_data
  items,           \* the sequence the for loop of main() iterates over
  idx,             \* position of the for loop in items (next element to take)
  obj,             \* the loop variable of main()
  parsed_object,   \* last value returned by parse_attack_pattern
  mitre_mapped,    \* the catalog: technique id -> record
  pc,              \* "start" | "loop" | "done" | "raised"
  error,           \* uncaught exception that ended main(), or "none"
  printed,         \* the count printed on success, -1 before
  \* ---- validation.py: validate_alert_config() ----
  alert_config,    \* the parsed TOML document
  rule_type,       \* local of validate_alert_config
  required_fields, \* local of validate_alert_config (<<>> until computed)
  present_fields,  \* local of validate_alert_config
  missing_fields,  \* local of validate_alert_config
  warned,          \* whether get_required_fields printed its warning
  verdict,         \* "none" | "exit1" | "missing" | "passed"
  vpc,             \* "check" | "required" | "collect" | "report" | "done" | "exited"
  \* ---- validation.py: get_required_fields() called repeatedly ----
  call_log,        \* the rule types get_required_fields was called with, in order
  returned         \* the list returned by the last call

mitre_vars == <<mitre_data, items, idx, obj, parsed_object, mitre_mapped, pc, error, printed>>
validation_vars == <<alert_config, rule_type, required_fields, present_fields,
                     missing_fields, warned, verdict, vpc>>
required_vars == <<call_log, returned>>
vars == <<mitre_data, items, idx, obj, parsed_object, mitre_mapped, pc, error, printed,
          alert_config, rule_type, required_fields, present_fields,
          missing_fields, warned, verdict, vpc, call_log, returned>>

-----------------------------------------------------------------------------
(* Bounds of the model *)

MaxObjs == 2        \* longest list of small objects in a bundle
MaxRefs == 2        \* longest external_references list of a single-object bundle
MaxPhases == 2      \* longest kill_chain_phases list of a single-object bundle
MaxCalls == 3       \* longest sequence of get_required_fields calls

-----------------------------------------------------------------------------
(* Python values *)

\* Python's None where a plain string (url, name, type) may stand
None == "None"

\* Python's None where a technique id (a character sequence) may stand
NoneId == <<"None">>

\* Python's None where a record (dict) may stand
NoneRecord == [None |-> TRUE]

\* dict.get(key, default)
Get(d, key, default) == IF key \in DOMAIN d THEN d[key] ELSE default

\* JSON values whose Python type matters to main(): tagged by kind
JList(s) == [kind |-> "list", val |-> s]
JDict(d) == [kind |-> "dict", val |-> d]
JStr(s)  == [kind |-> "str", val |-> s]
JInt(n)  == [kind |-> "int", val |-> n]
JNull    == [kind |-> "null", val |-> 0]

\* the empty dict {}
EmptyDict == [k \in {} |-> None]

\* an option: <<>> is "key absent", <<v>> is "key present with value v"
Opt(S) == {<<>>} \cup {<<v>> : v \in S}

\* sequences over S of length at most n
SeqUpTo(S, n) == UNION {[1..k -> S] : k \in 0..n}

-----------------------------------------------------------------------------
(* mitre.py: parse_attack_pattern *)

\* str.startswith(prefix)
startswith(s, prefix) ==
  /\ Len(s) >= Len(prefix)
  /\ SubSeq(s, 1, Len(prefix)) = prefix

\* the condition of line 47, with the T test forgotten
RefMatches_anyId(ref) == "external_id" \in DOMAIN ref

\* line 47: 'external_id' in ref and ref['external_id'].startswith("T")
RefMatches(ref) ==
  /\ "external_id" \in DOMAIN ref
  /\ startswith(ref["external_id"], <<"T">>)

\* the loop of lines 46-50 without its break: the last matching reference wins
RECURSIVE ScanReferences_noBreak(_, _, _)
ScanReferences_noBreak(refs, i, found) ==
  IF i > Len(refs) THEN found
  ELSE IF RefMatches(refs[i])
       THEN ScanReferences_noBreak(refs, i + 1,
              [technique_id |-> refs[i]["external_id"],
               technique_url |-> Get(refs[i], "url", None)])
       ELSE ScanReferences_noBreak(refs, i + 1, found)

\* lines 46-50: the for loop over external_references from position i on, with
\* found = the values of technique_id, technique_url before the loop; the loop
\* breaks at the first matching reference
RECURSIVE ScanReferences(_, _, _)
ScanReferences(refs, i, found) ==
  IF i > Len(refs) THEN found
  ELSE IF RefMatches(refs[i])
       THEN [technique_id |-> refs[i]["external_id"],
             technique_url |-> Get(refs[i], "url", None)]
       ELSE ScanReferences(refs, i + 1, found)

\* lines 41-50: technique_id, technique_url after the scan
FindTechnique(attack_pattern_obj) ==
  LET unset == [technique_id |-> NoneId, technique_url |-> None]
  IN IF "external_references" \in DOMAIN attack_pattern_obj
     THEN ScanReferences(attack_pattern_obj["external_references"], 1, unset)
     ELSE unset

\* the comprehension of lines 56-59 with the 'phase_name' in tactic filter
\* replaced by a placeholder for entries lacking phase_name
RECURSIVE Tactics_placeholder(_, _)
Tactics_placeholder(phases, i) ==
  IF i > Len(phases) THEN <<>>
  ELSE <<Get(phases[i], "phase_name", None)>> \o Tactics_placeholder(phases, i + 1)

\* lines 56-59: [tactic['phase_name'] for tactic in phases if 'phase_name' in tactic]
RECURSIVE Tactics(_, _)
Tactics(phases, i) ==
  IF i > Len(phases) THEN <<>>
  ELSE IF "phase_name" \in DOMAIN phases[i]
       THEN <<phases[i]["phase_name"]>> \o Tactics(phases, i + 1)
       ELSE Tactics(phases, i + 1)

\* Python truthiness of technique_id (line 52): None and "" are falsy
TruthyId(id) == id # NoneId /\ id # <<>>

\* lines 64-70 with the default of .get('name') left out (a missing name -> None)
BuildRecord_noDefault(attack_pattern_obj, t) ==
  [tactics    |-> Tactics(Get(attack_pattern_obj, "kill_chain_phases", <<>>), 1),
   technique  |-> t.technique_id,
   name       |-> Get(attack_pattern_obj, "name", None),
   url        |-> t.technique_url,
   deprecated |-> Get(attack_pattern_obj, "x_mitre_deprecated", FALSE)]

\* lines 55-70: the record returned for a technique found by the scan
BuildRecord(attack_pattern_obj, t) ==
  [tactics    |-> Tactics(Get(attack_pattern_obj, "kill_chain_phases", <<>>), 1),
   technique  |-> t.technique_id,
   name       |-> Get(attack_pattern_obj, "name", "N/A"),
   url        |-> t.technique_url,
   deprecated |-> Get(attack_pattern_obj, "x_mitre_deprecated", FALSE)]

\* lines 30-70
parse_attack_pattern(attack_pattern_obj) ==
  LET t == FindTechnique(attack_pattern_obj)
  IN IF ~TruthyId(t.technique_id)
     THEN NoneRecord
     ELSE BuildRecord(attack_pattern_obj, t)

-----------------------------------------------------------------------------
(* mitre.py: main *)

\* what a Python for loop can iterate: lists, dicts (their keys), strings (their
\* characters); iterating an int or None raises TypeError
Iterable(v) == v.kind \in {"list", "dict", "str"}

\* the sequence of elements a for loop over v visits (dicts of the model have at
\* most one key, so the order of keys is determined)
Iterate(v) ==
  CASE v.kind = "list" -> v.val
    [] v.kind = "dict" -> IF DOMAIN v.val = {} THEN <<>>
                          ELSE <<JStr(CHOOSE k \in DOMAIN v.val : TRUE)>>
    [] v.kind = "str"  -> [i \in 1..Len(v.val) |-> JStr(<<v.val[i]>>)]

\* Python truthiness of the value returned by parse_attack_pattern (line 86):
\* None is falsy, the five-key record is truthy
Truthy(rec) == rec # NoneRecord

\* line 88 written as "first write wins" (setdefault)
Store_firstWins(mapped, rec) ==
  [k \in DOMAIN mapped \cup {rec.technique} |->
     IF k \in DOMAIN mapped THEN mapped[k] ELSE rec]

\* line 88: mitre_mapped[parsed_object['technique']] = parsed_object
Store(mapped, rec) ==
  [k \in DOMAIN mapped \cup {rec.technique} |->
     IF k = rec.technique THEN rec ELSE mapped[k]]

\* line 84: obj.get('type') == 'attack-pattern'
IsAttackPattern(o) == Get(o, "type", None) = "attack-pattern"

\* line 83: mitre_data.get('objects', []) is evaluated and iteration starts
StartLoop ==
  /\ pc = "start"
  /\ LET v == Get(mitre_data, "objects", JList(<<>>))
     IN IF Iterable(v)
        THEN /\ items' = Iterate(v)
             /\ pc' = "loop"
             /\ error' = error
        ELSE /\ items' = items
             /\ pc' = "raised"
             /\ error' = "TypeError"
  /\ UNCHANGED <<mitre_data, idx, obj, parsed_object, mitre_mapped, printed>>
  /\ UNCHANGED <<validation_vars, required_vars>>

\* line 84 on an element that is no dict: obj.get raises AttributeError
RaiseAttributeError ==
  /\ pc = "loop"
  /\ idx <= Len(items)
  /\ items[idx].kind # "dict"
  /\ obj' = items[idx]
  /\ pc' = "raised"
  /\ error' = "AttributeError"
  /\ UNCHANGED <<mitre_data, items, idx, parsed_object, mitre_mapped, printed>>
  /\ UNCHANGED <<validation_vars, required_vars>>

\* line 84 false: the object is skipped
SkipObject ==
  /\ pc = "loop"
  /\ idx <= Len(items)
  /\ items[idx].kind = "dict"
  /\ ~IsAttackPattern(items[idx].val)
  /\ obj' = items[idx]
  /\ idx' = idx + 1
  /\ UNCHANGED <<mitre_data, items, parsed_object, mitre_mapped, pc, error, printed>>
  /\ UNCHANGED <<validation_vars, required_vars>>

\* lines 84-88 on an attack-pattern object
ProcessAttackPattern ==
  /\ pc = "loop"
  /\ idx <= Len(items)
  /\ items[idx].kind = "dict"
  /\ IsAttackPattern(items[idx].val)
  /\ obj' = items[idx]
  /\ parsed_object' = parse_attack_pattern(items[idx].val)
  /\ mitre_mapped' = IF Truthy(parsed_object')
                     THEN Store(mitre_mapped, parsed_object')
                     ELSE mitre_mapped
  /\ idx' = idx + 1
  /\ UNCHANGED <<mitre_data, items, pc, error, printed>>
  /\ UNCHANGED <<validation_vars, required_vars>>

\* line 90: the loop is exhausted and the count is printed
Finish ==
  /\ pc = "loop"
  /\ idx > Len(items)
  /\ printed' = Cardinality(DOMAIN mitre_mapped)
  /\ pc' = "done"
  /\ UNCHANGED <<mitre_data, items, idx, obj, parsed_object, mitre_mapped, error>>
  /\ UNCHANGED <<validation_vars, required_vars>>

-----------------------------------------------------------------------------
(* Inputs of mitre.py *)

T1 == <<"T", "1">>
T2 == <<"T", "2">>
S1 == <<"S", "1">>

ExternalIds == {T1, T2, S1, <<>>}
Urls == {"u1", "u2"}
PhaseNames == {"execution", "persistence"}

\* a dict with the given optional entries
MkRef(id, url) ==
  [k \in (IF id # <<>> THEN {"external_id"} ELSE {})
         \cup (IF url # <<>> THEN {"url"} ELSE {}) |->
     IF k = "external_id" THEN id[1] ELSE url[1]]

MkPhase(pn) ==
  [k \in (IF pn # <<>> THEN {"phase_name"} ELSE {}) |-> pn[1]]

MkObject(type, refs, phases, name, dep) ==
  [k \in (IF type # <<>> THEN {"type"} ELSE {})
         \cup (IF refs # <<>> THEN {"external_references"} ELSE {})
         \cup (IF phases # <<>> THEN {"kill_chain_phases"} ELSE {})
         \cup (IF name # <<>> THEN {"name"} ELSE {})
         \cup (IF dep # <<>> THEN {"x_mitre_deprecated"} ELSE {}) |->
     CASE k = "type" -> type[1]
       [] k = "external_references" -> refs[1]
       [] k = "kill_chain_phases" -> phases[1]
       [] k = "name" -> name[1]
       [] k = "x_mitre_deprecated" -> dep[1]]

ExternalReferences == {MkRef(id, url) : id \in Opt(ExternalIds), url \in Opt(Urls)}
KillChainPhases == {MkPhase(pn) : pn \in Opt(PhaseNames)}

\* attack-pattern objects that vary in their external_references
RefObjects ==
  {MkObject(<<"attack-pattern">>, refs, <<>>, name, <<>>) :
     refs \in Opt(SeqUpTo(ExternalReferences, MaxRefs)), name \in Opt({"n1"})}

\* attack-pattern objects that vary in their kill_chain_phases
PhaseObjects ==
  {MkObject(<<"attack-pattern">>, <<<<MkRef(<<T1>>, <<"u1">>)>>>>, phases, <<>>, dep) :
     phases \in Opt(SeqUpTo(KillChainPhases, MaxPhases)), dep \in Opt(BOOLEAN)}

\* the objects of the bundles with several objects
SmallRefLists ==
  { <<>>,
    <<MkRef(<<T1>>, <<>>)>>,
    <<MkRef(<<T1>>, <<"u1">>)>>,
    <<MkRef(<<T2>>, <<"u2">>)>>,
    <<MkRef(<<S1>>, <<"u1">>)>>,
    <<MkRef(<<>>, <<"u2">>)>> }

SmallObjects ==
  {MkObject(<<"attack-pattern">>, refs, <<>>, name, dep) :
     refs \in Opt(SmallRefLists), name \in Opt({"n1"}), dep \in Opt({TRUE})}
  \cup {MkObject(type, <<<<MkRef(<<T1>>, <<"u1">>)>>>>, <<>>, <<"n1">>, <<>>) :
          type \in Opt({"malware"})}

\* elements of an objects list: objects, and a value that is no object
Elements == {JDict(o) : o \in SmallObjects} \cup {JInt(7)}

\* values of the top-level objects field that are no sequence
NonSequences == {JDict(EmptyDict), JDict([a |-> 1]), JStr(<<>>), JStr(<<"x">>), JInt(7), JNull}

Bundles ==
  {EmptyDict}
  \cup {[objects |-> v] : v \in NonSequences}
  \cup {[objects |-> JList(s)] : s \in SeqUpTo(Elements, MaxObjs)}
  \cup {[objects |-> JList(<<JDict(o)>>)] : o \in RefObjects \cup PhaseObjects}

-----------------------------------------------------------------------------
(* Specification of mitre.py *)

MitreIdle ==
  /\ mitre_data = EmptyDict
  /\ items = <<>>
  /\ idx = 1
  /\ obj = JNull
  /\ parsed_object = NoneRecord
  /\ mitre_mapped = EmptyDict
  /\ pc = "done"
  /\ error = "none"
  /\ printed = 0

ValidationIdle ==
  /\ alert_config = EmptyDict
  /\ rule_type = None
  /\ required_fields = <<>>
  /\ present_fields = {}
  /\ missing_fields = <<>>
  /\ warned = FALSE
  /\ verdict = "none"
  /\ vpc = "exited"

RequiredIdle ==
  /\ call_log = <<>>
  /\ returned = <<>>

\* the state when fetch_mitre_data has returned (lines 78-81)
Init ==
  /\ mitre_data \in Bundles
  /\ items = <<>>
  /\ idx = 1
  /\ obj = JNull
  /\ parsed_object = NoneRecord
  /\ mitre_mapped = EmptyDict
  /\ pc = "start"
  /\ error = "none"
  /\ printed = -1
  /\ ValidationIdle
  /\ RequiredIdle

Next ==
  \/ StartLoop
  \/ RaiseAttributeError
  \/ SkipObject
  \/ ProcessAttackPattern
  \/ Finish

Spec == Init /\ [][Next]_vars

-----------------------------------------------------------------------------
(* Properties of mitre.py *)

\* a technique id that starts with the character "T"
IsTId(id) == Len(id) >= 1 /\ id[1] = "T"

\* positions of the references of object o whose external_id is present and
\* T-prefixed
TRefs(o) ==
  IF "external_references" \in DOMAIN o
  THEN {i \in 1..Len(o["external_references"]) :
          /\ "external_id" \in DOMAIN o["external_references"][i]
          /\ IsTId(o["external_references"][i]["external_id"])}
  ELSE {}

Min(S) == CHOOSE m \in S : \A n \in S : m <= n
Max(S) == CHOOSE m \in S : \A n \in S : m >= n

\* the first T-prefixed reference of an object that has one
FirstTRef(o) == o["external_references"][Min(TRefs(o))]

\* the loop variable holds an attack-pattern object, which
\* parse_attack_pattern has just been applied to
ProcessedAttackPattern ==
  /\ obj.kind = "dict"
  /\ "type" \in DOMAIN obj.val
  /\ obj.val["type"] = "attack-pattern"

\* positions of the bundle whose element is an attack-pattern object
\* resolving to technique id k
Resolving(k) ==
  {i \in 1..Len(items) :
     /\ items[i].kind = "dict"
     /\ "type" \in DOMAIN items[i].val
     /\ items[i].val["type"] = "attack-pattern"
     /\ TRefs(items[i].val) # {}
     /\ FirstTRef(items[i].val)["external_id"] = k}

\* the top-level objects field is absent, or is a sequence of objects
ObjectsAbsent == "objects" \notin DOMAIN mitre_data
ObjectsWellFormed ==
  /\ "objects" \in DOMAIN mitre_data
  /\ mitre_data["objects"].kind = "list"
  /\ \A i \in 1..Len(mitre_data["objects"].val) :
       mitre_data["objects"].val[i].kind = "dict"

\* C1: every key of the catalog and the technique of every record in it starts
\* with "T" (hence is non-empty), and each record is stored under its own
\* technique id -- at every point of the build, so also in the final catalog.
C1_KeysStartWithT ==
  \A k \in DOMAIN mitre_mapped :
    /\ IsTId(k)
    /\ IsTId(mitre_mapped[k].technique)
    /\ mitre_mapped[k].technique = k

\* a finished catalog with an entry, built from a bundle that also holds an
\* attack-pattern object whose only external ids are not T-prefixed
C1_Witness ==
  /\ pc = "done"
  /\ DOMAIN mitre_mapped # {}
  /\ \E i \in 1..Len(items) :
       /\ items[i].kind = "dict"
       /\ Get(items[i].val, "type", None) = "attack-pattern"
       /\ "external_references" \in DOMAIN items[i].val
       /\ \E j \in 1..Len(items[i].val["external_references"]) :
            "external_id" \in DOMAIN items[i].val["external_references"][j]
       /\ TRefs(items[i].val) = {}

\* C2: for an attack-pattern object with two or more T-prefixed references the
\* record's technique is the external_id of the first of them in document
\* order, and its url is the url of that same reference (None if it has none).
C2_FirstMatchWins ==
  (ProcessedAttackPattern /\ Cardinality(TRefs(obj.val)) >= 2) =>
    /\ parsed_object # NoneRecord
    /\ parsed_object.technique = FirstTRef(obj.val)["external_id"]
    /\ parsed_object.url = IF "url" \in DOMAIN FirstTRef(obj.val)
                           THEN FirstTRef(obj.val)["url"]
                           ELSE None

\* an object parsed whose two T-prefixed references differ in id and in url,
\* behind a reference that does not match
C2_Witness ==
  /\ ProcessedAttackPattern
  /\ Cardinality(TRefs(obj.val)) >= 2
  /\ LET refs == obj.val["external_references"]
         a == Min(TRefs(obj.val))
         b == Max(TRefs(obj.val))
     IN /\ refs[a]["external_id"] # refs[b]["external_id"]
        /\ "url" \in DOMAIN refs[a]
        /\ "url" \in DOMAIN refs[b]
        /\ refs[a]["url"] # refs[b]["url"]
        /\ parsed_object.technique = refs[a]["external_id"]

\* C3: in the finished catalog the entry at each key is the record derived
\* from the last attack-pattern object of the bundle that resolves to that
\* key; when several objects collide no field comes from an earlier one.
C3_LastWriteWins ==
  pc = "done" =>
    \A k \in DOMAIN mitre_mapped :
      /\ Resolving(k) # {}
      /\ mitre_mapped[k] = parse_attack_pattern(items[Max(Resolving(k))].val)

\* a finished build in which two objects with different records collided
C3_Witness ==
  /\ pc = "done"
  /\ \E k \in DOMAIN mitre_mapped :
       /\ Cardinality(Resolving(k)) >= 2
       /\ parse_attack_pattern(items[Min(Resolving(k))].val)
            # parse_attack_pattern(items[Max(Resolving(k))].val)

\* C4: when objects is present but is no sequence of objects, main() fails
\* (any exception it raises is counted as the MalformedBundle failure) and
\* never finishes with a catalog; when objects is absent it finishes with the
\* empty catalog and no error.
C4_MalformedBundleFails ==
  /\ (~ObjectsAbsent /\ ~ObjectsWellFormed) => pc # "done"
  /\ (ObjectsAbsent /\ pc \in {"done", "raised"}) =>
       (pc = "done" /\ error = "none" /\ mitre_mapped = EmptyDict)

\* C9: the tactics of a record are the phase_name values of the
\* kill_chain_phases entries that have one, in source order, duplicates kept,
\* nothing for the entries without; the empty list when kill_chain_phases is
\* absent.
C9_TacticsInOrder ==
  (ProcessedAttackPattern /\ parsed_object # NoneRecord) =>
    LET withName == IF "kill_chain_phases" \in DOMAIN obj.val
                    THEN SelectSeq(obj.val["kill_chain_phases"],
                                   LAMBDA p : "phase_name" \in DOMAIN p)
                    ELSE <<>>
    IN /\ Len(parsed_object.tactics) = Len(withName)
       /\ \A i \in 1..Len(withName) :
            parsed_object.tactics[i] = withName[i]["phase_name"]

\* the example of the specification: [{}, {phase_name: "execution"}]
C9_Witness ==
  /\ ProcessedAttackPattern
  /\ "kill_chain_phases" \in DOMAIN obj.val
  /\ obj.val["kill_chain_phases"] = <<EmptyDict, [phase_name |-> "execution"]>>
  /\ parsed_object # NoneRecord
  /\ parsed_object.tactics = <<"execution">>

\* C10: a bundle whose objects field is absent or a sequence of objects never
\* makes main() raise; objects without type or of another type are skipped and
\* attack-pattern objects without a T-prefixed external_id are dropped, so the
\* keys of the finished catalog are exactly the ids the attack-pattern objects
\* resolve to; a record gets name "N/A" when name is missing, deprecated FALSE
\* when x_mitre_deprecated is missing, url None when the selected reference
\* has no url.
C10_GracefulDefaults ==
  /\ (ObjectsAbsent \/ ObjectsWellFormed) => (pc # "raised" /\ error = "none")
  /\ ProcessedAttackPattern =>
       IF TRefs(obj.val) = {}
       THEN parsed_object = NoneRecord
       ELSE /\ parsed_object # NoneRecord
            /\ parsed_object.name = IF "name" \in DOMAIN obj.val
                                    THEN obj.val["name"] ELSE "N/A"
            /\ parsed_object.deprecated = IF "x_mitre_deprecated" \in DOMAIN obj.val
                                          THEN obj.val["x_mitre_deprecated"] ELSE FALSE
            /\ "url" \notin DOMAIN FirstTRef(obj.val) => parsed_object.url = None
  /\ (pc = "done" /\ (ObjectsAbsent \/ ObjectsWellFormed)) =>
       /\ DOMAIN mitre_mapped = {k \in {T1, T2} : Resolving(k) # {}}
       /\ printed = Cardinality(DOMAIN mitre_mapped)

\* a finished build of two objects: one without type, skipped, and an
\* attack-pattern object lacking name, x_mitre_deprecated and the url of its
\* T-prefixed reference, stored with the defaults
C10_Witness ==
  /\ pc = "done"
  /\ Len(items) = 2
  /\ items[1].kind = "dict"
  /\ "type" \notin DOMAIN items[1].val
  /\ items[2].kind = "dict"
  /\ DOMAIN items[2].val = {"type", "external_references"}
  /\ DOMAIN mitre_mapped = {T1}
  /\ mitre_mapped[T1] = [tactics |-> <<>>, technique |-> T1, name |-> "N/A",
                         url |-> None, deprecated |-> FALSE]

\* a second case of C10: an attack-pattern object whose references have no
\* T-prefixed external_id is dropped and the build finishes with no entry
C10_DroppedReached ==
  /\ pc = "done"
  /\ Len(items) = 1
  /\ ProcessedAttackPattern
  /\ "external_references" \in DOMAIN obj.val
  /\ Len(obj.val["external_references"]) = 2
  /\ TRefs(obj.val) = {}
  /\ mitre_mapped = EmptyDict

-----------------------------------------------------------------------------
(* validation.py: get_required_fields *)

\* line 25
base_fields == <<"description", "name", "risk_score", "severity", "type">>

\* lines 27-35: the list returned
get_required_fields(rt) ==
  IF rt = "query" THEN base_fields \o <<"query">>
  ELSE IF rt = "eql" THEN base_fields \o <<"query", "language">>
  ELSE IF rt = "threshold" THEN base_fields \o <<"query", "threshold">>
  ELSE base_fields

\* lines 33-34: the warning is printed in the else branch only
PrintsWarning(rt) == rt \notin {"query", "eql", "threshold"}

-----------------------------------------------------------------------------
(* validation.py: validate_alert_config *)

\* line 42 negated: 'rule' in alert_config and 'type' in alert_config['rule']
HasRuleDeclaration(cfg) ==
  /\ "rule" \in DOMAIN cfg
  /\ "type" \in DOMAIN cfg["rule"]

\* lines 50-52 collecting the keys of the rule table only
PresentFields_ruleOnly(cfg) == DOMAIN cfg["rule"]

\* lines 50-52: the keys of every top-level table
PresentFields(cfg) == UNION {DOMAIN cfg[table_name] : table_name \in DOMAIN cfg}

\* line 54: [field for field in required_fields if field not in present_fields]
MissingFields(required, present) ==
  SelectSeq(required, LAMBDA field : field \notin present)

\* lines 42-44 reporting an absent rule declaration as missing fields instead
\* of exiting
CheckRule_reportsMissing ==
  /\ vpc = "check"
  /\ IF HasRuleDeclaration(alert_config)
     THEN /\ vpc' = "required"
          /\ UNCHANGED <<verdict, missing_fields>>
     ELSE /\ vpc' = "done"
          /\ missing_fields' = <<"type">>
          /\ verdict' = "missing"
  /\ UNCHANGED <<alert_config, rule_type, required_fields, present_fields, warned>>
  /\ UNCHANGED <<mitre_vars, required_vars>>

\* lines 42-44: without rule or rule.type an error is printed and the process
\* exits with status 1
CheckRule ==
  /\ vpc = "check"
  /\ IF HasRuleDeclaration(alert_config)
     THEN /\ vpc' = "required"
          /\ verdict' = verdict
     ELSE /\ vpc' = "exited"
          /\ verdict' = "exit1"
  /\ UNCHANGED <<alert_config, rule_type, required_fields, present_fields,
                 missing_fields, warned>>
  /\ UNCHANGED <<mitre_vars, required_vars>>

\* lines 46-47 with an unknown rule type treated as fatal
ComputeRequired_unknownFatal ==
  /\ vpc = "required"
  /\ rule_type' = alert_config["rule"]["type"]
  /\ IF PrintsWarning(rule_type')
     THEN /\ vpc' = "exited"
          /\ verdict' = "exit1"
          /\ UNCHANGED <<required_fields, warned>>
     ELSE /\ required_fields' = get_required_fields(rule_type')
          /\ vpc' = "collect"
          /\ UNCHANGED <<verdict, warned>>
  /\ UNCHANGED <<alert_config, present_fields, missing_fields>>
  /\ UNCHANGED <<mitre_vars, required_vars>>

\* lines 46-47
ComputeRequired ==
  /\ vpc = "required"
  /\ rule_type' = alert_config["rule"]["type"]
  /\ required_fields' = get_required_fields(rule_type')
  /\ warned' = PrintsWarning(rule_type')
  /\ vpc' = "collect"
  /\ UNCHANGED <<alert_config, present_fields, missing_fields, verdict>>
  /\ UNCHANGED <<mitre_vars, required_vars>>

\* lines 50-52
CollectPresent ==
  /\ vpc = "collect"
  /\ present_fields' = PresentFields(alert_config)
  /\ vpc' = "report"
  /\ UNCHANGED <<alert_config, rule_type, required_fields, missing_fields, warned, verdict>>
  /\ UNCHANGED <<mitre_vars, required_vars>>

\* lines 54-59
Report ==
  /\ vpc = "report"
  /\ missing_fields' = MissingFields(required_fields, present_fields)
  /\ verdict' = IF missing_fields' # <<>> THEN "missing" ELSE "passed"
  /\ vpc' = "done"
  /\ UNCHANGED <<alert_config, rule_type, required_fields, present_fields, warned>>
  /\ UNCHANGED <<mitre_vars, required_vars>>

-----------------------------------------------------------------------------
(* Inputs and specification of validate_alert_config *)

FieldNames == {"description", "name", "risk_score", "severity", "type",
               "query", "language", "threshold"}
RuleTypes == {"query", "eql", "threshold", "machine_learning"}
MetadataFieldNames == {"type", "query", "language", "threshold"}

\* a table with the given keys; the value of type is ty, any other value "v"
MkTable(keys, ty) == [k \in keys |-> IF k = "type" THEN ty ELSE "v"]

RuleTables == {MkTable(keys, ty) : keys \in SUBSET FieldNames, ty \in RuleTypes}
MetadataTables == {MkTable(keys, "v") : keys \in SUBSET MetadataFieldNames}

MkConfig(rule, metadata) ==
  [t \in (IF rule # <<>> THEN {"rule"} ELSE {})
         \cup (IF metadata # <<>> THEN {"metadata"} ELSE {}) |->
     IF t = "rule" THEN rule[1] ELSE metadata[1]]

Configs == {MkConfig(r, m) : r \in Opt(RuleTables), m \in Opt(MetadataTables)}

\* the state when load_alert_config has returned (line 86)
ValidationInit ==
  /\ alert_config \in Configs
  /\ rule_type = None
  /\ required_fields = <<>>
  /\ present_fields = {}
  /\ missing_fields = <<>>
  /\ warned = FALSE
  /\ verdict = "none"
  /\ vpc = "check"
  /\ MitreIdle
  /\ RequiredIdle

ValidationNext ==
  \/ CheckRule
  \/ ComputeRequired
  \/ CollectPresent
  \/ Report

ValidationSpec == ValidationInit /\ [][ValidationNext]_vars

-----------------------------------------------------------------------------
(* Repeated calls of get_required_fields *)

RuleTypeArguments == RuleTypes \cup {""}

\* a call whose base list is one list shared by all calls and extended in
\* place (base_fields += [...]), so that it keeps what earlier calls appended
CallGetRequiredFields_sharedBase ==
  /\ Len(call_log) < MaxCalls
  /\ \E rt \in RuleTypeArguments :
       /\ call_log' = Append(call_log, rt)
       /\ returned' = (IF call_log = <<>> THEN base_fields ELSE returned)
                        \o SubSeq(get_required_fields(rt), Len(base_fields) + 1,
                                  Len(get_required_fields(rt)))
  /\ UNCHANGED <<mitre_vars, validation_vars>>

\* lines 21-35: one call; base_fields is a fresh local list in every call and
\* + builds a new list
CallGetRequiredFields ==
  /\ Len(call_log) < MaxCalls
  /\ \E rt \in RuleTypeArguments :
       /\ call_log' = Append(call_log, rt)
       /\ returned' = get_required_fields(rt)
  /\ UNCHANGED <<mitre_vars, validation_vars>>

RequiredInit ==
  /\ call_log = <<>>
  /\ returned = <<>>
  /\ MitreIdle
  /\ ValidationIdle

RequiredNext == CallGetRequiredFields

RequiredSpec == RequiredInit /\ [][RequiredNext]_vars

-----------------------------------------------------------------------------
(* Properties of validation.py *)

\* the configuration declares rule.type
Declared == "rule" \in DOMAIN alert_config /\ "type" \in DOMAIN alert_config["rule"]

\* field f is a key of some top-level table
PresentAnywhere(f) == \E t \in DOMAIN alert_config : f \in DOMAIN alert_config[t]

\* C5: for a configuration with rule.type, the missing fields reported are
\* exactly the fields of get_required_fields(rule.type) that are a key of no
\* top-level table, in the order of the required list; the report is "missing"
\* when there is one and "passed" otherwise.
C5_MissingFieldsExact ==
  (vpc = "done" /\ Declared) =>
    LET required == get_required_fields(alert_config["rule"]["type"])
        absent == SelectSeq(required, LAMBDA f : ~PresentAnywhere(f))
    IN /\ missing_fields = absent
       /\ verdict = IF absent = <<>> THEN "passed" ELSE "missing"

\* the example of the specification: type query, all base fields, no query key
C5_Witness ==
  /\ vpc = "done"
  /\ alert_config = [rule |-> [type |-> "query", name |-> "v", description |-> "v",
                               risk_score |-> "v", severity |-> "v"]]
  /\ missing_fields = <<"query">>
  /\ verdict = "missing"

\* a second case of C5: the query key of an eql rule is present in the
\* metadata table only and counts as present
C5_OtherTableReached ==
  /\ vpc = "done"
  /\ Declared
  /\ alert_config["rule"]["type"] = "eql"
  /\ "query" \notin DOMAIN alert_config["rule"]
  /\ "metadata" \in DOMAIN alert_config
  /\ "query" \in DOMAIN alert_config["metadata"]
  /\ missing_fields = <<"description", "language">>

\* C6: without a rule table, or without type in it, validation stops at the
\* check with exit status 1: no required-field list is computed, no field is
\* collected and no report (missing or passed) is made.
C6_MissingRuleDeclarationFatal ==
  ~Declared =>
    /\ vpc \in {"check", "exited"}
    /\ (vpc = "exited" <=> verdict = "exit1")
    /\ verdict \in {"none", "exit1"}
    /\ required_fields = <<>>
    /\ present_fields = {}
    /\ missing_fields = <<>>

\* the process has exited on a rule table without type although another table
\* has a type key
C6_Witness ==
  /\ vpc = "exited"
  /\ verdict = "exit1"
  /\ "rule" \in DOMAIN alert_config
  /\ "type" \notin DOMAIN alert_config["rule"]
  /\ "metadata" \in DOMAIN alert_config
  /\ "type" \in DOMAIN alert_config["metadata"]

\* a second case of C6: no rule table at all
C6_NoRuleTableReached ==
  /\ vpc = "exited"
  /\ verdict = "exit1"
  /\ "rule" \notin DOMAIN alert_config

\* C7: whatever calls came before, get_required_fields returns the base list
\* description, name, risk_score, severity, type followed by query for
\* "query", by query, language for "eql", by query, threshold for "threshold"
\* and by nothing for any other rule type.
C7_RequiredFieldsTable ==
  call_log # <<>> =>
    LET rt == call_log[Len(call_log)]
    IN /\ SubSeq(returned, 1, 5) =
            <<"description", "name", "risk_score", "severity", "type">>
       /\ SubSeq(returned, 6, Len(returned)) =
            CASE rt = "query" -> <<"query">>
              [] rt = "eql" -> <<"query", "language">>
              [] rt = "threshold" -> <<"query", "threshold">>
              [] OTHER -> <<>>

\* threshold is asked for after eql and an unknown type, and has no language
C7_Witness ==
  /\ call_log = <<"eql", "machine_learning", "threshold">>
  /\ returned = <<"description", "name", "risk_score", "severity", "type",
                  "query", "threshold">>

\* C8: a configuration with rule.type never ends in the fatal exit: from every
\* state the validation either has made its report (missing or passed) or can
\* take its next step; for a rule type outside query, eql, threshold the
\* warning is printed and the required fields are the base fields only.
C8_OnlyFatalIsMissingDeclaration ==
  Declared =>
    /\ vpc # "exited"
    /\ verdict # "exit1"
    /\ vpc = "done" \/ ENABLED ValidationNext
    /\ vpc = "done" => verdict \in {"missing", "passed"}
    /\ vpc \in {"collect", "report", "done"} =>
         /\ warned = (alert_config["rule"]["type"] \notin {"query", "eql", "threshold"})
         /\ warned => required_fields =
                        <<"description", "name", "risk_score", "severity", "type">>

\* an unknown rule type with a base field missing: warned, and reported
C8_Witness ==
  /\ vpc = "done"
  /\ Declared
  /\ alert_config["rule"]["type"] = "machine_learning"
  /\ warned
  /\ verdict = "missing"
  /\ missing_fields = <<"severity">>

\* a second case of C8: an unknown rule type passes on the base fields alone
C8_UnknownPassesReached ==
  /\ vpc = "done"
  /\ Declared
  /\ alert_config["rule"]["type"] = "machine_learning"
  /\ warned
  /\ verdict = "passed"

====
